---- MODULE Spec2Model ----
(***************************************************************************)
(* Deck state machine of the slide presenter (src/app.js).                 *)
(*                                                                         *)
(* The live deck is the global `state` = {slides, current}; the durable    *)
(* store is the single localStorage item STORAGE_KEY.  Every event handler *)
(* of app.js that touches either of them is one action.  JavaScript values *)
(* that can flow into state.current (numbers, undefined, null, NaN, a      *)
(* non-numeric string) are kept apart, with the coercions the operators    *)
(* `||`, `+`, `-`, `<`, `>`, `>=`, `===`, Math.min/Math.max, Array.splice  *)
(* and JSON.stringify apply to them.                                       *)
(*                                                                         *)
(* exportJSON, focusCurrentEditable, placeCaretAtEnd, updateSlidesPosition *)
(* and the swipe detection read the deck but write neither `state` nor the *)
(* store, so they add no action.                                           *)
(***************************************************************************)
EXTENDS Integers, Sequences, FiniteSets, TLC

VARIABLES
    state,      \* the live deck: [slides |-> Seq(slide value), current |-> JS value]
    storage,    \* the localStorage item under STORAGE_KEY (a raw document)
    dom,        \* number of .slide elements in slidesWrapper (each with its handlers)
    pc,         \* "start" before init(), "ready" after it, "crashed" if init() threw
    reading,    \* number of FileReaders whose onload has not run yet
    nextId,     \* number of the next genId() call
    chosen,     \* number of files chosen for import so far
    last        \* the handler that ran last: its name, how it ended, whether it saved

vars == <<state, storage, dom, pc, reading, nextId, chosen, last>>

(***************************************************************************)
(* Bounds of the model.                                                    *)
(***************************************************************************)
MaxSlides == 3      \* addSlide is explored while the deck has fewer slides
MaxGen == 2         \* genId() is explored for this many ids after the default one
MaxDocLen == 2      \* longest `slides` array of a stored / imported document
MaxFiles == 1       \* files chosen for import in one run

(***************************************************************************)
(* JavaScript values.                                                      *)
(***************************************************************************)
Num(k) == [t |-> "number", v |-> k]
Undefined == [t |-> "undefined", v |-> 0]
Null == [t |-> "null", v |-> 0]
NaN == [t |-> "NaN", v |-> 0]
\* a non-numeric string such as "x" (and "x1", "x11", ...: all of them)
Str == [t |-> "string", v |-> 0]

IsNum(x) == x.t = "number"
Min(a, b) == IF a <= b THEN a ELSE b
Max(a, b) == IF a >= b THEN a ELSE b

\* ToNumber: undefined -> NaN, null -> 0, "x" -> NaN
ToNumber(x) ==
    IF IsNum(x) THEN x
    ELSE IF x.t = "null" THEN Num(0)
    ELSE NaN

\* x || 0 : undefined, null, NaN and 0 are falsy, a non-empty string is truthy
OrZero(x) ==
    IF x.t = "string" THEN x
    ELSE IF IsNum(x) /\ x.v # 0 THEN x
    ELSE Num(0)

\* Math.max(a, b) and Math.min(a, b): NaN if either argument converts to NaN
MathMax(a, b) ==
    LET x == ToNumber(a)
        y == ToNumber(b)
    IN  IF IsNum(x) /\ IsNum(y) THEN Num(Max(x.v, y.v)) ELSE NaN

MathMin(a, b) ==
    LET x == ToNumber(a)
        y == ToNumber(b)
    IN  IF IsNum(x) /\ IsNum(y) THEN Num(Min(x.v, y.v)) ELSE NaN

\* a < b, a > b, a >= b on ToNumber of both sides: false when either is NaN
Lt(a, b) ==
    LET x == ToNumber(a)
        y == ToNumber(b)
    IN  IsNum(x) /\ IsNum(y) /\ x.v < y.v

Gt(a, b) == Lt(b, a)

Ge(a, b) ==
    LET x == ToNumber(a)
        y == ToNumber(b)
    IN  IsNum(x) /\ IsNum(y) /\ x.v >= y.v

\* a === b : no coercion; NaN differs from itself.  The only strings compared
\* are state.current and state.current + 1, which differ.
StrictEq(a, b) == a = b /\ a.t \notin {"NaN", "string"}

\* x + 1 : number addition, except that a string concatenates ("x" + 1 = "x1")
Plus1(x) ==
    IF x.t = "string" THEN Str
    ELSE LET n == ToNumber(x) IN IF IsNum(n) THEN Num(n.v + 1) ELSE NaN

\* x - 1 : always numeric
Minus1(x) ==
    LET n == ToNumber(x) IN IF IsNum(n) THEN Num(n.v - 1) ELSE NaN

\* Math.min(Math.max(0, c || 0), len - 1), the clamp of load() and of the import
ClampCurrent(c, len) == MathMin(MathMax(Num(0), OrZero(c)), Num(len - 1))

(***************************************************************************)
(* Slides.  An element of state.slides is an object {id, text} or, when it *)
(* comes from a parsed document, possibly null.  id 0 stands for a missing *)
(* (or otherwise falsy) id; NoText for a missing text.                     *)
(***************************************************************************)
NoId == 0
NoText == "<undefined>"
Obj(id, text) == [t |-> "object", id |-> id, text |-> text]
NullSlide == [t |-> "null", id |-> NoId, text |-> NoText]

\* the text of the default slide (app.js:13), shortened
DefaultText == "Titulo"
NewText == "Nueva diapositiva"

\* genId(): Date.now() in base 36 followed by six random characters.  The n-th
\* call is taken to return an id no earlier call and no document has.
GenBase == 100
genId(n) == GenBase + n

\* const defaultSlides: built once, when the script is loaded (genId call 0)
defaultSlides == << Obj(genId(0), DefaultText) >>

\* Array.prototype.splice start index: ToIntegerOrInfinity, relative to the end
\* when negative, clamped to [0, len]
SpliceStart(x, len) ==
    LET n == ToNumber(x)
        k == IF IsNum(n) THEN n.v ELSE 0
    IN  IF k < 0 THEN Max(len + k, 0) ELSE Min(k, len)

\* s.splice(start, 0, item)
SpliceInsert(s, start, item) ==
    LET k == SpliceStart(start, Len(s))
    IN  SubSeq(s, 1, k) \o << item >> \o SubSeq(s, k + 1, Len(s))

\* s.splice(start, 1)
SpliceDelete(s, start) ==
    LET k == SpliceStart(start, Len(s))
    IN  SubSeq(s, 1, k) \o SubSeq(s, k + 2, Len(s))

(***************************************************************************)
(* Raw documents: what localStorage holds and what an imported file holds. *)
(* kind: "none" (no item), "empty" (the empty string), "bad" (text that is *)
(* not JSON), "null" (the JSON text null), "scalar" (a JSON number) or     *)
(* "object".  For an object, arr says whether its `slides` is an array,    *)
(* slides is that array, current its `current` (Undefined when missing)    *)
(* and canon says whether the text is exactly what JSON.stringify prints.  *)
(***************************************************************************)
Raw(kind, arr, s, c, canon) ==
    [kind |-> kind, arr |-> arr, slides |-> s, current |-> c, canon |-> canon]

NoItem == Raw("none", FALSE, << >>, Undefined, FALSE)
EmptyText == Raw("empty", FALSE, << >>, Undefined, FALSE)
BadText == Raw("bad", FALSE, << >>, Undefined, FALSE)
JsonNull == Raw("null", FALSE, << >>, Undefined, TRUE)
JsonScalar == Raw("scalar", FALSE, << >>, Undefined, TRUE)
ObjNoSlides(c) == Raw("object", FALSE, << >>, c, FALSE)
ObjDoc(s, c, canon) == Raw("object", TRUE, s, c, canon)

\* JSON.stringify of a property value: NaN prints as null, undefined is omitted
JsonValue(x) == IF x.t = "NaN" THEN Null ELSE x

\* JSON.stringify(state)
stringify(st) == ObjDoc(st.slides, JsonValue(st.current), TRUE)

\* Does JSON.parse(raw) throw?
ParseThrows(raw) == raw.kind \in {"empty", "bad"}

(***************************************************************************)
(* The handlers.  Each is an operator from the values it reads to a result *)
(* record: the live deck, the stored item and the DOM it leaves, and how   *)
(* it ended ("ok", "noop", "declined", "alert" or "threw" for an exception *)
(* nobody catches), and whether it called localStorage.setItem.            *)
(***************************************************************************)
\* a handler that ended without calling save()
Res(st, sto, d, out) ==
    [state |-> st, storage |-> sto, dom |-> d, out |-> out, wrote |-> FALSE]

\* load(): the deck read from the stored item
load(raw) ==
    LET default == [slides |-> defaultSlides, current |-> Num(0)]
    IN  IF raw.kind \in {"none", "empty"} THEN default          \* if(raw) fails
        ELSE IF ParseThrows(raw) THEN default                    \* catch(e)
        ELSE IF raw.kind = "null" THEN default                   \* null.slides: catch(e)
        ELSE IF ~raw.arr \/ Len(raw.slides) = 0 THEN default     \* basic validation
        ELSE [slides |-> raw.slides,
              current |-> ClampCurrent(raw.current, Len(raw.slides))]

\* save(): the item written
save(st) == stringify(st)

\* a handler that ended by calling save()
Saved(st, d, out) ==
    [state |-> st, storage |-> save(st), dom |-> d, out |-> out, wrote |-> TRUE]

\* Index (from 1) of the first null element of s, 0 if there is none
FirstNull(s) ==
    IF \E i \in 1..Len(s) : s[i].t = "null"
    THEN CHOOSE i \in 1..Len(s) :
            /\ s[i].t = "null"
            /\ \A j \in 1..(i - 1) : s[j].t # "null"
    ELSE 0

\* renderSlides(): empties slidesWrapper and appends one .slide per element;
\* reading s.text of a null element throws and leaves the elements made so far
renderSlides(st) ==
    LET k == FirstNull(st.slides)
    IN  IF k = 0 THEN [dom |-> Len(st.slides), threw |-> FALSE]
        ELSE [dom |-> k - 1, threw |-> TRUE]

\* updateUI() without its last line, save()
updateUINoSave(st, sto, d) == Res(st, sto, d, "ok")

\* updateUI(): refreshes the controls and saves
updateUI(st, sto, d) == Saved(st, d, "ok")

\* goTo(idx) without the early return of line 154
goToAlwaysUpdates(idx, st, sto, d) ==
    LET n == Len(st.slides)
        i1 == IF Lt(idx, Num(0)) THEN Num(0) ELSE idx
        i2 == IF Gt(i1, Num(n - 1)) THEN Num(n - 1) ELSE i1
    IN  Saved([st EXCEPT !.current = i2], d, "ok")

\* goTo(idx)
goTo(idx, st, sto, d) ==
    LET n == Len(st.slides)
        i1 == IF Lt(idx, Num(0)) THEN Num(0) ELSE idx
        i2 == IF Gt(i1, Num(n - 1)) THEN Num(n - 1) ELSE i1
    IN  IF StrictEq(i2, st.current) THEN Res(st, sto, d, "noop")
        ELSE updateUI([st EXCEPT !.current = i2], sto, d)

\* addSlide(), id being what genId() returns
addSlide(id, st, sto, d) ==
    LET newSlide == Obj(id, NewText)
        st1 == [slides |-> SpliceInsert(st.slides, Plus1(st.current), newSlide),
                current |-> Plus1(st.current)]
        r == renderSlides(st1)
    IN  IF r.threw THEN Res(st1, sto, r.dom, "threw")
        ELSE updateUI(st1, sto, r.dom)

\* deleteSlide() without the confirm() of line 174
deleteSlideNoConfirm(confirmed, st, sto, d) ==
    IF Len(st.slides) = 0 THEN Res(st, sto, d, "noop")
    ELSE
        LET s1 == SpliceDelete(st.slides, st.current)
            c1 == IF Ge(st.current, Num(Len(s1)))
                  THEN Num(Max(0, Len(s1) - 1))
                  ELSE st.current
        IN  Saved([slides |-> s1, current |-> c1], Len(s1), "ok")

\* deleteSlide(), confirmed being the answer to confirm()
deleteSlide(confirmed, st, sto, d) ==
    IF Len(st.slides) = 0 THEN Res(st, sto, d, "noop")
    ELSE IF ~confirmed THEN Res(st, sto, d, "declined")
    ELSE
        LET s1 == SpliceDelete(st.slides, st.current)
            c1 == IF Ge(st.current, Num(Len(s1)))
                  THEN Num(Max(0, Len(s1) - 1))
                  ELSE st.current
            st1 == [slides |-> s1, current |-> c1]
            r == renderSlides(st1)
        IN  IF r.threw THEN Res(st1, sto, r.dom, "threw")
            ELSE updateUI(st1, sto, r.dom)

\* the 'input' listener of the text block of .slide number idx (from 0)
onInput(idx, text, st, sto, d) ==
    IF idx + 1 > Len(st.slides) \/ st.slides[idx + 1].t = "null"
    THEN Res(st, sto, d, "threw")               \* TypeError setting .text
    ELSE
        LET st1 == [st EXCEPT !.slides[idx + 1].text = text]
        IN  Saved(st1, d, "ok")

\* the 'blur' listener of a text block
onBlur(st, sto, d) == Saved(st, d, "ok")

\* Number of elements among the first k of s that have no (truthy) id
Missing(s, k) == Cardinality({i \in 1..k : s[i].t # "null" /\ s[i].id = NoId})

\* state.slides.map(s => ({ id: s.id || genId(), text: s.text || '' })), the
\* next genId() call being call number n
NormalizeSlides(s, n) ==
    [i \in 1..Len(s) |->
        Obj(IF s[i].id # NoId THEN s[i].id ELSE genId(n + Missing(s, i - 1)),
            IF s[i].text \in {NoText, ""} THEN "" ELSE s[i].text)]

\* Calls of genId() the import of file makes
GenCalls(file) ==
    IF ParseThrows(file) \/ ~file.arr THEN 0
    ELSE IF FirstNull(file.slides) = 0 THEN Missing(file.slides, Len(file.slides))
    ELSE Missing(file.slides, FirstNull(file.slides) - 1)

\* reader.onload of onImportFile, file being the text read
onload(file, n, st, sto, d) ==
    IF ParseThrows(file) THEN Res(st, sto, d, "alert")           \* JSON.parse throws
    ELSE IF file.kind = "null" THEN Res(st, sto, d, "alert")     \* null.slides
    ELSE IF ~file.arr THEN Res(st, sto, d, "alert")              \* Formato invalido
    ELSE
        LET st1 == [slides |-> file.slides, current |-> file.current]  \* state = data
        IN  IF FirstNull(st1.slides) # 0
            THEN Res(st1, sto, d, "alert")                       \* s.id of null
            ELSE
                LET s2 == NormalizeSlides(st1.slides, n)
                    st2 == [slides |-> s2,
                            current |-> ClampCurrent(st1.current, Len(s2))]
                    r == renderSlides(st2)
                IN  updateUI(st2, sto, r.dom)

(***************************************************************************)
(* Inputs.                                                                 *)
(***************************************************************************)
\* elements of a document's slides array
SlideVals == {NullSlide, Obj(NoId, NoText), Obj(1, "A")}
SlideArrays == UNION {[1..n -> SlideVals] : n \in 0..MaxDocLen}
\* values of a document's current: missing, a string, negative, in range, too large
CurrentVals == {Undefined, Str, Num(-1), Num(1), Num(99)}

\* what localStorage may hold when the page is opened
StoredDocs ==
    {NoItem, EmptyText, BadText, JsonNull, JsonScalar, ObjNoSlides(Num(0))}
    \cup {ObjDoc(s, c, canon) : s \in SlideArrays, c \in CurrentVals, canon \in BOOLEAN}

\* what a file chosen for import may hold
FileDocs ==
    {EmptyText, BadText, JsonNull, JsonScalar, ObjNoSlides(Num(0))}
    \cup {ObjDoc(s, c, FALSE) : s \in SlideArrays, c \in CurrentVals}

\* indices goTo is called with
GoToArgs == -2..(MaxSlides + 2)
\* what the user types into a text block
EditTexts == {"E"}

Ran(op, out, wrote) == [op |-> op, out |-> out, wrote |-> wrote]

(***************************************************************************)
(* The state machine.                                                      *)
(***************************************************************************)
Init ==
    /\ state = [slides |-> << >>, current |-> Num(0)]
    /\ storage \in StoredDocs
    /\ dom = 0
    /\ pc = "start"
    /\ reading = 0
    /\ nextId = 1
    /\ chosen = 0
    /\ last = Ran("none", "ok", FALSE)

Apply(r, op) ==
    /\ state' = r.state
    /\ storage' = r.storage
    /\ dom' = r.dom
    /\ last' = Ran(op, r.out, r.wrote)

\* init(): load, renderSlides, attachEvents, updateUI
InitApp ==
    /\ pc = "start"
    /\ LET st == load(storage)
           r == renderSlides(st)
       IN  IF r.threw
           THEN /\ Apply(Res(st, storage, r.dom, "threw"), "init")
                /\ pc' = "crashed"
           ELSE /\ Apply(updateUI(st, storage, r.dom), "init")
                /\ pc' = "ready"
    /\ UNCHANGED <<reading, nextId, chosen>>

\* goTo(i) called with an integer
GoToCall(i) ==
    /\ pc = "ready"
    /\ Apply(goTo(Num(i), state, storage, dom), "goTo")
    /\ UNCHANGED <<pc, reading, nextId, chosen>>

\* prevBtn click, ArrowLeft, swipe right
Prev ==
    /\ pc = "ready"
    /\ Apply(goTo(Minus1(state.current), state, storage, dom), "goTo")
    /\ UNCHANGED <<pc, reading, nextId, chosen>>

\* nextBtn click, ArrowRight, swipe left
Next1 ==
    /\ pc = "ready"
    /\ Apply(goTo(Plus1(state.current), state, storage, dom), "goTo")
    /\ UNCHANGED <<pc, reading, nextId, chosen>>

\* click on .slide number idx
SlideClick(idx) ==
    /\ pc # "start"
    /\ idx < dom
    /\ Apply(goTo(Num(idx), state, storage, dom), "goTo")
    /\ UNCHANGED <<pc, reading, nextId, chosen>>

\* addBtn click, Ctrl/Cmd+N
AddSlide ==
    /\ pc = "ready"
    /\ Len(state.slides) < MaxSlides
    /\ nextId <= MaxGen
    /\ Apply(addSlide(genId(nextId), state, storage, dom), "addSlide")
    /\ nextId' = nextId + 1
    /\ UNCHANGED <<pc, reading, chosen>>

\* delBtn click, Ctrl/Cmd+D
DeleteSlide(confirmed) ==
    /\ pc = "ready"
    /\ Apply(deleteSlide(confirmed, state, storage, dom), "deleteSlide")
    /\ UNCHANGED <<pc, reading, nextId, chosen>>

\* typing in the text block of .slide number idx
EditText(idx, text) ==
    /\ pc # "start"
    /\ idx < dom
    /\ Apply(onInput(idx, text, state, storage, dom), "input")
    /\ UNCHANGED <<pc, reading, nextId, chosen>>

\* a text block loses the focus
Blur ==
    /\ pc # "start"
    /\ dom > 0
    /\ Apply(onBlur(state, storage, dom), "blur")
    /\ UNCHANGED <<pc, reading, nextId, chosen>>

\* onImportFile: a file is chosen and handed to a FileReader
ImportSelect ==
    /\ pc = "ready"
    /\ chosen < MaxFiles
    /\ chosen' = chosen + 1
    /\ reading' = reading + 1
    /\ last' = Ran("select", "ok", FALSE)
    /\ UNCHANGED <<state, storage, dom, pc, nextId>>

\* reader.onload: a read completes, file being the text of the chosen file
\* (nothing depends on it before, so it is drawn here)
ImportLoad(file) ==
    /\ reading > 0
    /\ nextId + GenCalls(file) <= MaxGen + 1
    /\ Apply(onload(file, nextId, state, storage, dom), "import")
    /\ reading' = reading - 1
    /\ nextId' = nextId + GenCalls(file)
    /\ UNCHANGED <<pc, chosen>>

Next ==
    \/ InitApp
    \/ \E i \in GoToArgs : GoToCall(i)
    \/ Prev
    \/ Next1
    \/ \E idx \in 0..(MaxSlides - 1) : SlideClick(idx)
    \/ AddSlide
    \/ \E c \in BOOLEAN : DeleteSlide(c)
    \/ \E idx \in 0..(MaxSlides - 1), t \in EditTexts : EditText(idx, t)
    \/ Blur
    \/ ImportSelect
    \/ \E f \in FileDocs : ImportLoad(f)

Spec == Init /\ [][Next]_vars

(***************************************************************************)
(* Sub-specifications: the deck under addSlide / deleteSlide alone, the    *)
(* startup alone, and every handler but the import.                        *)
(***************************************************************************)
NextDeck ==
    \/ InitApp
    \/ AddSlide
    \/ \E c \in BOOLEAN : DeleteSlide(c)

SpecDeck == Init /\ [][NextDeck]_vars

NextStartup == InitApp

SpecStartup == Init /\ [][NextStartup]_vars

NextLocal ==
    \/ InitApp
    \/ \E i \in GoToArgs : GoToCall(i)
    \/ Prev
    \/ Next1
    \/ \E idx \in 0..(MaxSlides - 1) : SlideClick(idx)
    \/ AddSlide
    \/ \E c \in BOOLEAN : DeleteSlide(c)
    \/ \E idx \in 0..(MaxSlides - 1), t \in EditTexts : EditText(idx, t)
    \/ Blur

SpecLocal == Init /\ [][NextLocal]_vars

(***************************************************************************)
(* Properties.                                                             *)
(***************************************************************************)
\* current is a number and an index of slides, and there is a slide
ValidDeck(st) ==
    /\ Len(st.slides) >= 1
    /\ IsNum(st.current)
    /\ 0 <= st.current.v
    /\ st.current.v <= Len(st.slides) - 1

\* clamp(i, 0, n - 1) of the specification
Clamp(i, n) == Min(Max(i, 0), n - 1)

\* C1: from a valid deck, every addSlide and every confirmed deleteSlide
\* leaves slides.length >= 1 and 0 <= current <= slides.length - 1.
C1_AddDeleteKeepValid ==
    [][(pc = "ready" /\ ValidDeck(state)) => ValidDeck(state')]_vars

\* C2: a confirmed deleteSlide on a deck of one slide leaves one slide, with
\* an id other than the deleted slide's, and current = 0.
C2_DeleteLastResets ==
    [][(/\ pc = "ready"
        /\ Len(state.slides) = 1
        /\ last'.op = "deleteSlide"
        /\ last'.out # "declined")
       => (/\ Len(state'.slides) = 1
           /\ state'.slides[1].id # state.slides[1].id
           /\ state'.current = Num(0))]_vars

\* C3: an import that fails (it is reported by the alert) leaves the live
\* deck and the stored document as they were.
C3_FailedImportChangesNothing ==
    [][(last'.op = "import" /\ last'.out = "alert")
       => (state' = state /\ storage' = storage)]_vars

\* C4: goTo(i) leaves current = clamp(i, 0, slides.length - 1), a valid index.
C4_GoToClamps ==
    [][\A i \in GoToArgs :
          GoToCall(i) =>
             (/\ state'.current = Num(Clamp(i, Len(state.slides)))
              /\ ValidDeck(state'))]_vars

\* C5: a file that parses as JSON is rejected exactly when its slides field
\* is missing or not an array.
C5_OnlyNonArrayRejected ==
    [][\A f \in FileDocs :
          (ImportLoad(f) /\ ~ParseThrows(f)) =>
             (last'.out = "alert" <=> ~f.arr)]_vars

\* the deck the specification's importDocument makes of file f: the slides
\* in order, ids kept or freshly generated, texts kept or empty
Imported(f, st) ==
    /\ Len(st.slides) = Len(f.slides)
    /\ \A i \in 1..Len(f.slides) :
          /\ st.slides[i].t = "object"
          /\ st.slides[i].id # NoId
          /\ f.slides[i].id # NoId => st.slides[i].id = f.slides[i].id
          /\ f.slides[i].id = NoId => st.slides[i].id >= GenBase
          /\ st.slides[i].text =
                (IF f.slides[i].text = NoText THEN "" ELSE f.slides[i].text)

\* C6: after a successful import the deck is the imported one, normalized,
\* and current is the imported current clamped into 0 .. slides.length - 1.
C6_ImportNormalizes ==
    [][\A f \in FileDocs :
          (ImportLoad(f) /\ last'.out = "ok") =>
             (/\ Imported(f, state')
              /\ ValidDeck(state')
              /\ IsNum(f.current) =>
                    state'.current = Num(Clamp(f.current.v, Len(f.slides)))
              /\ f.current = Undefined => state'.current = Num(0))]_vars

\* C7: once the startup has completed, every slide has an id and no two
\* slides share one.
C7_IdsUnique ==
    pc = "ready" =>
        /\ \A i \in 1..Len(state.slides) :
              state.slides[i].t = "object" /\ state.slides[i].id # NoId
        /\ \A i, j \in 1..Len(state.slides) :
              i # j => state.slides[i].id # state.slides[j].id

\* Is the stored item one that initialize adopts?
Adoptable(raw) ==
    /\ raw.kind = "object"
    /\ raw.arr
    /\ Len(raw.slides) > 0

\* C8: a startup that completes has loaded the default deck from a missing,
\* unparseable or shapeless stored item, and otherwise the stored slides
\* with a current that is an index of them.
C8_InitializeTotal ==
    [][(InitApp /\ pc' = "ready") =>
          /\ ~Adoptable(storage) =>
                state' = [slides |-> defaultSlides, current |-> Num(0)]
          /\ Adoptable(storage) =>
                /\ state'.slides = storage.slides
                /\ ValidDeck(state')]_vars

\* C9 as stated: the startup leaves the stored item as it was.
C9_StartupOnlyReads ==
    [][InitApp => storage' = storage]_vars

\* C9 amended: a startup that completes has written the serialization of
\* the loaded deck; one that stops in renderSlides has written nothing.
C9_StartupSavesLoadedDeck ==
    [][InitApp =>
          /\ pc' = "ready" => storage' = stringify(load(storage))
          /\ pc' = "crashed" => storage' = storage]_vars

\* C9 witness: the startup completed on a missing or corrupt item and the
\* store now holds the default deck.
C9_Witness ==
    /\ pc = "ready"
    /\ last.op = "init"
    /\ storage = ObjDoc(defaultSlides, Num(0), TRUE)

\* C10: once an operation has changed the live deck, the stored item is
\* the serialization of the live deck.
C10_SavedOnEveryMutation ==
    [][(pc = "ready" /\ state' # state) => storage' = stringify(state')]_vars

\* C11: saving the live deck and loading what was saved gives back the
\* live deck: the same slides in the same order and the same current.
C11_SaveLoadRoundTrip ==
    pc = "ready" => load(save(state)) = state

\* C12: a text edit whose index is no index of the live slides raises no
\* exception and leaves the deck as it was.
C12_StaleEditIgnored ==
    [][\A idx \in 0..(MaxSlides - 1), t \in EditTexts :
          (EditText(idx, t) /\ idx >= Len(state.slides)) =>
             (last'.out # "threw" /\ state' = state)]_vars

\* C13: addSlide with current = c on n slides gives n + 1 slides, the new
\* slide (fresh id, placeholder text) at index c + 1, the others in their
\* order before and after it, and current = c + 1.
C13_AddSlideInsertsAfterCurrent ==
    [][(AddSlide /\ IsNum(state.current)) =>
          LET c == state.current.v
              n == Len(state.slides)
              s == state.slides
              s2 == state'.slides
          IN  /\ Len(s2) = n + 1
              /\ state'.current = Num(c + 1)
              /\ c + 2 \in 1..(n + 1)
              /\ s2[c + 2].t = "object"
              /\ s2[c + 2].text = NewText
              /\ s2[c + 2].id # NoId
              /\ \A i \in 1..n : s[i].id # s2[c + 2].id
              /\ \A i \in 1..n : s2[IF i <= c + 1 THEN i ELSE i + 1] = s[i]]_vars

\* C14: a confirmed deleteSlide with current = c on n >= 2 slides removes
\* the slide at index c, keeps the others in their order, and sets current
\* to min(c, n - 2).
C14_DeleteSlideRemovesCurrent ==
    [][(DeleteSlide(TRUE) /\ Len(state.slides) >= 2 /\ IsNum(state.current)) =>
          LET c == state.current.v
              n == Len(state.slides)
              s == state.slides
              s2 == state'.slides
          IN  /\ Len(s2) = n - 1
              /\ state'.current = Num(Min(c, n - 2))
              /\ \A i \in 1..(n - 1) : s2[i] = s[IF i <= c THEN i ELSE i + 1]]_vars

C16_ImportAfterInterleaving ==
    [][\A f \in FileDocs :
          (ImportLoad(f) /\ last.op # "select" /\ last'.out = "ok") =>
             (/\ Imported(f, state')
              /\ state'.current = ClampCurrent(f.current, Len(f.slides))
              /\ ValidDeck(state'))]_vars

\* C17: previous / next move current by at most one and leave it an index
\* of slides; previous on the first slide and next on the last change nothing.
C17_PrevNextStepByOne ==
    [][(Prev \/ Next1) =>
          /\ ValidDeck(state')
          /\ IsNum(state.current) =>
                /\ state'.current.v - state.current.v <= 1
                /\ state.current.v - state'.current.v <= 1
          /\ (Prev /\ state.current = Num(0)) => state'.current = state.current
          /\ (Next1 /\ state.current = Num(Len(state.slides) - 1)) =>
                state'.current = state.current]_vars

\* C18: a declined deleteSlide, and deleteSlide on a deck without slides,
\* change neither the deck nor the stored item (nor write it).
C18_DeclinedDeleteChangesNothing ==
    [][\A c \in BOOLEAN :
          (DeleteSlide(c) /\ (~c \/ Len(state.slides) = 0)) =>
             (/\ state' = state
              /\ storage' = storage
              /\ dom' = dom
              /\ ~last'.wrote)]_vars

\* C18 witness: deleteSlide was invoked on a deck without slides.
C18_Witness ==
    /\ pc = "ready"
    /\ last = Ran("deleteSlide", "noop", FALSE)
    /\ Len(state.slides) = 0

\* every slide of s is still in s2, unchanged
Kept(s, s2) == \A i \in 1..Len(s) : \E j \in 1..Len(s2) : s2[j] = s[i]

\* C19: goTo leaves the slide list as it is; a text edit at an index k of
\* the live slides sets the text of slide k to the typed string and changes
\* nothing else; addSlide and deleteSlide change no slide that stays.
C19_FrameOfGoToAndEdit ==
    [][/\ (Prev \/ Next1 \/ \E i \in GoToArgs : GoToCall(i)
             \/ \E idx \in 0..(MaxSlides - 1) : SlideClick(idx))
          => state'.slides = state.slides
       /\ \A k \in 0..(MaxSlides - 1), t \in EditTexts :
             (EditText(k, t) /\ k < Len(state.slides)) =>
                state' = [state EXCEPT !.slides[k + 1].text = t]
       /\ AddSlide => Kept(state.slides, state'.slides)
       /\ (\E c \in BOOLEAN : DeleteSlide(c)) => Kept(state'.slides, state.slides)]_vars

====
